---- MODULE Spec2Model ----
(***************************************************************************)
(* Model of src/rbac/user.rs: the User entity (Native / OAuth), its        *)
(* factories, the PHC credential codec (gen_hash / verify) and the         *)
(* openid::Userinfo -> UserInfo mapping.                                   *)
(*                                                                         *)
(* Strings that the code only copies or compares (user names, role names,  *)
(* profile attributes) are TLA+ strings.  Strings whose structure the code *)
(* depends on (passwords, PHC hash strings) are sequences of tokens: one   *)
(* token per character for passwords, separators and decimal digits, and   *)
(* one token for an identifier or a base64 blob (salt, digest).            *)
(***************************************************************************)
EXTENDS Integers, Sequences, FiniteSets, TLC

VARIABLES options, user, secret, process, ret

vars == <<options, user, secret, process, ret>>

(***************************************************************************)
(* Bounds of the model.                                                    *)
(***************************************************************************)
\* number of distinct salts the OS random source can produce
NumSalts == 2
\* the password length above which the hashing algorithm rejects its input
\* (0xFFFFFFFF in the argon2 crate, scaled down)
MaxPwdLen == 17

\* length of a generated password
PasswordLen == 16

Range(s) == {s[i] : i \in 1..Len(s)}

(***************************************************************************)
(* Option<T>                                                               *)
(***************************************************************************)
None == [tag |-> "None"]
Some(v) == [tag |-> "Some", val |-> v]
IsSome(o) == o.tag = "Some"
UnwrapOr(o, d) == IF IsSome(o) THEN o.val ELSE d
Opt(S) == {None} \cup {Some(v) : v \in S}

(***************************************************************************)
(* Decimal conversion, as the PHC encoder and parser do it.                *)
(***************************************************************************)
Digits == <<"0", "1", "2", "3", "4", "5", "6", "7", "8", "9">>

RECURSIVE DecimalString(_)
DecimalString(n) ==
    IF n < 10 THEN <<Digits[n + 1]>>
    ELSE DecimalString(n \div 10) \o <<Digits[(n % 10) + 1]>>

IsDecimal(f) == Len(f) > 0 /\ \A i \in 1..Len(f) : f[i] \in Range(Digits)

DigitValue(d) == (CHOOSE k \in 1..10 : Digits[k] = d) - 1

RECURSIVE DecimalValue(_)
DecimalValue(f) ==
    IF Len(f) = 0 THEN 0
    ELSE 10 * DecimalValue(SubSeq(f, 1, Len(f) - 1)) + DigitValue(f[Len(f)])

(***************************************************************************)
(* Result<T, E>                                                            *)
(***************************************************************************)
Ok(v) == [tag |-> "Ok", val |-> v]
Err(e) == [tag |-> "Err", err |-> e]
IsOk(r) == r.tag = "Ok"

(***************************************************************************)
(* Tokens of a PHC string.                                                 *)
(***************************************************************************)
Sep == "$"
\* tokens that stand for one character
CharTokens == {Sep, ",", "=", "-", "v", "m", "t", "p", "a", "b", "x", "w"} \cup Range(Digits)
\* characters outside the base64 alphabet of salts and digests
NotB64 == {Sep, ",", "=", "-", "not-a-valid-hash"}
\* characters outside the alphabet of an algorithm identifier: [a-z0-9-]
IdentTokens == {"argon2d", "argon2i", "argon2id", "pbkdf2-sha256", "not-a-valid-hash"}

\* characters a token stands for (an identifier or blob stands for many)
TokenChars(tok) == IF tok \in CharTokens THEN 1 ELSE 16

RECURSIVE FieldChars(_)
FieldChars(f) == IF f = <<>> THEN 0 ELSE TokenChars(Head(f)) + FieldChars(Tail(f))

B64Field(f) == f # <<>> /\ \A i \in 1..Len(f) : f[i] \notin NotB64

\* Ident::try_from: 1..32 characters of [a-z0-9-]
IsIdent(f) == Len(f) = 1 /\ f[1] \in IdentTokens
\* Salt::try_from: 4..64 base64 characters
ValidSalt(f) == B64Field(f) /\ FieldChars(f) >= 4 /\ FieldChars(f) <= 64
\* Output::decode: 10..64 bytes of base64
ValidOutput(f) == B64Field(f) /\ FieldChars(f) >= 14 /\ FieldChars(f) <= 86

\* str::split: the fields between occurrences of c
RECURSIVE Split(_, _)
Split(s, c) ==
    IF c \notin Range(s) THEN <<s>>
    ELSE LET i == CHOOSE k \in 1..Len(s) : s[k] = c /\ \A j \in 1..(k - 1) : s[j] # c
         IN  <<SubSeq(s, 1, i - 1)>> \o Split(SubSeq(s, i + 1, Len(s)), c)

\* fields joined with the separator c between them
RECURSIVE Join(_, _)
Join(fs, c) ==
    IF fs = <<>> THEN <<>>
    ELSE IF Len(fs) = 1 THEN fs[1]
    ELSE fs[1] \o <<c>> \o Join(Tail(fs), c)

(***************************************************************************)
(* ParamsString: name=value pairs separated by commas.                     *)
(***************************************************************************)
ParamNames == {"m", "t", "p"}

\* one name=value pair: a name, "=", a non-empty value
ParsePair(f) ==
    IF Len(f) >= 3 /\ f[1] \in ParamNames /\ f[2] = "="
       /\ \A i \in 3..Len(f) : f[i] \notin {Sep, ",", "="}
    THEN Ok([name |-> f[1], value |-> SubSeq(f, 3, Len(f))])
    ELSE Err("ParamsInvalid")

ParseParams(f) ==
    LET pairs == Split(f, ",")
        parsed == [i \in 1..Len(pairs) |-> ParsePair(pairs[i])]
    IN  IF \E i \in 1..Len(pairs) : ~IsOk(parsed[i]) THEN Err("ParamsInvalid")
        ELSE IF \E i, j \in 1..Len(pairs) : i # j /\ parsed[i].val.name = parsed[j].val.name
        THEN Err("ParamsDuplicated")
        ELSE Ok([i \in 1..Len(pairs) |-> parsed[i].val])

FormatParams(ps) ==
    Join([i \in 1..Len(ps) |-> <<ps[i].name, "=">> \o ps[i].value], ",")

(***************************************************************************)
(* PasswordHash: the parsed form of a PHC string.                          *)
(***************************************************************************)
\* PasswordHash::new: $<id>[$v=<version>][$<param>=<value>(,...)*][$<salt>[$<hash>]]
PasswordHashNew(s) ==
    IF s = <<>> THEN Err("PhcStringField")
    ELSE
    LET fields == Split(s, Sep) IN
    IF fields[1] # <<>> \/ Len(fields) < 2 THEN Err("PhcStringField")
    ELSE IF ~IsIdent(fields[2]) THEN Err("PhcStringField")
    ELSE
    LET rest1 == SubSeq(fields, 3, Len(fields))
        hasVersion == /\ rest1 # <<>>
                      /\ Len(rest1[1]) >= 2 /\ rest1[1][1] = "v" /\ rest1[1][2] = "="
                      /\ "," \notin Range(rest1[1])
        versionText == IF hasVersion THEN SubSeq(rest1[1], 3, Len(rest1[1])) ELSE <<>>
        rest2 == IF hasVersion THEN Tail(rest1) ELSE rest1
        hasParams == rest2 # <<>> /\ "=" \in Range(rest2[1])
        params == IF hasParams THEN ParseParams(rest2[1]) ELSE Ok(<<>>)
        rest3 == IF hasParams THEN Tail(rest2) ELSE rest2
        hasSalt == rest3 # <<>>
        rest4 == IF hasSalt THEN Tail(rest3) ELSE rest3
        hasHash == rest4 # <<>>
        rest5 == IF hasHash THEN Tail(rest4) ELSE rest4
    IN  IF hasVersion /\ ~IsDecimal(versionText) THEN Err("PhcStringField")
        ELSE IF ~IsOk(params) THEN params
        ELSE IF hasSalt /\ ~ValidSalt(rest3[1]) THEN Err("SaltInvalid")
        ELSE IF hasHash /\ ~ValidOutput(rest4[1]) THEN Err("B64Encoding")
        ELSE IF rest5 # <<>> THEN Err("PhcStringTrailingData")
        ELSE Ok([algorithm |-> fields[2][1],
                 version |-> IF hasVersion THEN Some(DecimalValue(versionText)) ELSE None,
                 params |-> params.val,
                 salt |-> IF hasSalt THEN Some(rest3[1]) ELSE None,
                 hash |-> IF hasHash THEN Some(rest4[1]) ELSE None])

\* Display for PasswordHash
PasswordHashToString(h) ==
    <<Sep, h.algorithm>>
    \o (IF IsSome(h.version) THEN <<Sep, "v", "=">> \o DecimalString(h.version.val) ELSE <<>>)
    \o (IF h.params # <<>> THEN <<Sep>> \o FormatParams(h.params) ELSE <<>>)
    \o (IF IsSome(h.salt)
        THEN <<Sep>> \o h.salt.val
             \o (IF IsSome(h.hash) THEN <<Sep>> \o h.hash.val ELSE <<>>)
        ELSE <<>>)

(***************************************************************************)
(* Argon2 as the code uses it: Argon2::default(), hash_password and        *)
(* verify_password.                                                        *)
(***************************************************************************)
Argon2Algorithms == {"argon2d", "argon2i", "argon2id"}
Argon2Versions == {16, 19}

\* Argon2::default(): Argon2id, version 0x13, m=19456, t=2, p=1
Argon2Default ==
    [algorithm |-> "argon2id", version |-> 19,
     params |-> [m_cost |-> 19456, t_cost |-> 2, p_cost |-> 1]]

\* The memory-hard function itself, idealised as collision-free: the digest
\* is a base64 blob that determines every input it was computed from.
Argon2Digest(algorithm, version, params, salt, password) ==
    "digest" \o ToString(<<algorithm, version, params.m_cost, params.t_cost,
                           params.p_cost, salt, password>>)

\* Params -> ParamsString
ParamsToString(params) ==
    <<[name |-> "m", value |-> DecimalString(params.m_cost)],
      [name |-> "t", value |-> DecimalString(params.t_cost)],
      [name |-> "p", value |-> DecimalString(params.p_cost)]>>

\* Params::try_from(&PasswordHash): m, t, p read back from the parameter
\* string, the defaults where a parameter is missing
ParamsFromHash(h) ==
    LET Lookup(n, d) ==
            IF \E i \in 1..Len(h.params) : h.params[i].name = n
            THEN LET i == CHOOSE k \in 1..Len(h.params) : h.params[k].name = n
                 IN  IF IsDecimal(h.params[i].value)
                     THEN Ok(DecimalValue(h.params[i].value))
                     ELSE Err("ParamValueInvalid")
            ELSE Ok(d)
        m == Lookup("m", Argon2Default.params.m_cost)
        t == Lookup("t", Argon2Default.params.t_cost)
        p == Lookup("p", Argon2Default.params.p_cost)
    IN  IF ~IsOk(m) \/ ~IsOk(t) \/ ~IsOk(p) THEN Err("ParamValueInvalid")
        ELSE IF p.val < 1 \/ t.val < 1 \/ m.val < 8 * p.val THEN Err("ParamValueInvalid")
        ELSE Ok([m_cost |-> m.val, t_cost |-> t.val, p_cost |-> p.val])

\* Argon2::hash_password_customized
HashPasswordCustomized(password, algorithm, version, params, salt) ==
    IF algorithm \notin Argon2Algorithms THEN Err("Algorithm")
    ELSE IF IsSome(version) /\ version.val \notin Argon2Versions THEN Err("Version")
    ELSE IF Len(password) > MaxPwdLen THEN Err("PwdTooLong")
    ELSE LET ver == UnwrapOr(version, Argon2Default.version)
         IN  Ok([algorithm |-> algorithm,
                 version |-> Some(ver),
                 params |-> ParamsToString(params),
                 salt |-> Some(salt),
                 hash |-> Some(<<Argon2Digest(algorithm, ver, params, salt, password)>>)])

\* PasswordHasher::hash_password with the default parameters
HashPassword(password, salt) ==
    HashPasswordCustomized(password, Argon2Default.algorithm, None,
                           Argon2Default.params, salt)

\* PasswordVerifier::verify_password: recompute with the embedded
\* algorithm, version, parameters and salt, and compare the digests
VerifyPassword(password, h) ==
    IF IsSome(h.salt) /\ IsSome(h.hash)
    THEN LET params == ParamsFromHash(h) IN
         IF ~IsOk(params) THEN params
         ELSE LET computed == HashPasswordCustomized(password, h.algorithm, h.version,
                                                     params.val, h.salt.val)
              IN  IF ~IsOk(computed) THEN computed
                  ELSE IF computed.val.hash = h.hash THEN Ok(TRUE)
                  ELSE Err("Password")
    ELSE Err("Password")

(***************************************************************************)
(* The outcome of a call: it returns a value or it panics.                 *)
(***************************************************************************)
Panic == [outcome |-> "panic"]
Return(v) == [outcome |-> "return", value |-> v]
Returned(o) == o.outcome = "return"

\* SaltString::generate(&mut OsRng): the salts the random source can draw
Salts == {<<"salt" \o ToString(i)>> : i \in 1..NumSalts}

\* verify with is_ok() taken of the parse instead of the verification
verify_parse_only(password_hash, password) ==
    LET parsed_hash == PasswordHashNew(password_hash)
    IN  IF ~IsOk(parsed_hash) THEN Panic ELSE Return(TRUE)

\* verify (line 115): unwrap() of the parse, then is_ok() of the verification
verify(password_hash, password) ==
    LET parsed_hash == PasswordHashNew(password_hash)
    IN  IF ~IsOk(parsed_hash) THEN Panic
        ELSE Return(IsOk(VerifyPassword(password, parsed_hash.val)))

\* gen_hash (line 124) with the salt it draws: expect() of the hashing
gen_hash(password, salt) ==
    LET hashcode == HashPassword(password, salt)
    IN  IF ~IsOk(hashcode) THEN Panic
        ELSE Return(PasswordHashToString(hashcode.val))

(***************************************************************************)
(* Input domains.                                                          *)
(***************************************************************************)
Usernames == {"alice", "bob"}
RoleNames == {"admin", "editor"}

\* Alphanumeric.sample_string(rng, 16): draws that differ in the first or
\* in the last character
GenPasswords ==
    {[i \in 1..PasswordLen |-> IF i = 1 THEN c ELSE IF i = PasswordLen THEN d ELSE "x"] :
        c \in {"a", "b"}, d \in {"x", "w"}}

\* a secret the hashing algorithm rejects: one character over its bound
TooLongPassword == [i \in 1..(MaxPwdLen + 1) |-> "a"]

\* P_USERNAME / P_PASSWORD as the process may be configured
AdminPasswords == {<<"p", "w">>, <<>>, TooLongPassword}
AdminOptions == [username : {"root"}, password : AdminPasswords]

\* candidates presented for verification
Candidates == GenPasswords \cup AdminPasswords

\* profiles handed to new_oauth, and written to a user on a later login
NoUserInfo ==
    [name |-> None, preferred_username |-> None, picture |-> None, email |-> None,
     gender |-> None, updated_at |-> None, groups |-> None]
UserInfos ==
    {[NoUserInfo EXCEPT !.name = n, !.groups = g] :
        n \in Opt({"", "Bobby"}), g \in {None, Some(<<"ops">>)}}

(***************************************************************************)
(* User (lines 31-88), Basic (93-110), get_admin_user (140-152)            *)
(***************************************************************************)
Native(username, password_hash) ==
    [kind |-> "Native", username |-> username, password_hash |-> password_hash]
OAuth(userid, user_info) ==
    [kind |-> "OAuth", userid |-> userid, user_info |-> user_info]

\* Basic::gen_new_password with the password and the salt it draws
gen_new_password(password, salt) ==
    LET hash == gen_hash(password, salt)
    IN  IF ~Returned(hash) THEN Panic
        ELSE Return([password |-> password, hash |-> hash.value])

\* new_basic handing back a password other than the one it hashed
new_basic_other_password(username, password, salt) ==
    LET passcode == gen_new_password(password, salt)
    IN  IF ~Returned(passcode) THEN Panic
        ELSE Return([user |-> [ty |-> Native(username, passcode.value.hash), roles |-> {}],
                     password |-> Tail(passcode.value.password) \o <<"x">>])

\* User::new_basic
new_basic(username, password, salt) ==
    LET passcode == gen_new_password(password, salt)
    IN  IF ~Returned(passcode) THEN Panic
        ELSE Return([user |-> [ty |-> Native(username, passcode.value.hash), roles |-> {}],
                     password |-> passcode.value.password])

\* new_oauth falling back to the caller's name when the profile name is empty
new_oauth_skip_empty(username, roles, user_info) ==
    [ty |-> OAuth(IF IsSome(user_info.name) /\ user_info.name.val # ""
                  THEN user_info.name.val ELSE username, user_info),
     roles |-> roles]

\* User::new_oauth
new_oauth(username, roles, user_info) ==
    [ty |-> OAuth(UnwrapOr(user_info.name, username), user_info), roles |-> roles]

\* get_admin_user building the user with an empty role set, as new_basic does
get_admin_user_no_role(opts, salt) ==
    LET hashcode == gen_hash(opts.password, salt)
    IN  IF ~Returned(hashcode) THEN Panic
        ELSE Return([ty |-> Native(opts.username, hashcode.value), roles |-> {}])

\* get_admin_user storing the configured password itself
get_admin_user_plaintext(opts, salt) ==
    LET hashcode == gen_hash(opts.password, salt)
    IN  IF ~Returned(hashcode) THEN Panic
        ELSE Return([ty |-> Native(opts.username, opts.password), roles |-> {"admin"}])

\* get_admin_user, reading the configuration opts, with the salt it draws
get_admin_user(opts, salt) ==
    LET hashcode == gen_hash(opts.password, salt)
    IN  IF ~Returned(hashcode) THEN Panic
        ELSE Return([ty |-> Native(opts.username, hashcode.value), roles |-> {"admin"}])

\* username read from the profile's current name
username_from_profile(self) ==
    IF self.ty.kind = "Native" THEN self.ty.username
    ELSE UnwrapOr(self.ty.user_info.name, self.ty.userid)

\* User::username
username(self) ==
    IF self.ty.kind = "Native" THEN self.ty.username ELSE self.ty.userid

\* User::is_oauth
is_oauth(self) == self.ty.kind = "OAuth"

\* roles yielding sequences in which a name may repeat
roles_with_repeats(self) == [1..Cardinality(self.roles) -> self.roles]

\* User::roles: the members of the set, in the order the iteration yields
roles(self) ==
    {v \in [1..Cardinality(self.roles) -> self.roles] :
        \A i, j \in 1..Cardinality(self.roles) : i # j => v[i] # v[j]}

\* Basic::verify_password
verify_password(basic, password) == verify(basic.password_hash, password)

\* HashSet::insert and HashSet::remove on the public field roles
InsertedRole(self, r) == [self EXCEPT !.roles = @ \cup {r}]
RemovedRole(self, r) == [self EXCEPT !.roles = @ \ {r}]

\* the mapping with absent strings defaulted to the empty string
FromUserinfo_defaulted(claims) ==
    [name |-> claims.name,
     preferred_username |-> claims.preferred_username,
     picture |-> claims.picture,
     email |-> Some(UnwrapOr(claims.email, "")),
     gender |-> claims.gender,
     updated_at |-> claims.updated_at,
     groups |-> None]

(***************************************************************************)
(* UserInfo::from(openid::Userinfo) (lines 200-212)                        *)
(***************************************************************************)
FromUserinfo(claims) ==
    [name |-> claims.name,
     preferred_username |-> claims.preferred_username,
     picture |-> claims.picture,
     email |-> claims.email,
     gender |-> claims.gender,
     updated_at |-> claims.updated_at,
     groups |-> None]

(***************************************************************************)
(* State: one User value from its construction on.                         *)
(*   options  PARSEABLE.options: the configured admin credentials          *)
(*   user     None before a factory has returned, then Some(the User)      *)
(*   secret   the plaintext the user's hash was derived from: what         *)
(*            new_basic returned, or the configured password               *)
(*   process  "running", or "panicked" once a call has panicked            *)
(*   ret      the last call: its name, its arguments and its outcome       *)
(***************************************************************************)
Init ==
    /\ options \in AdminOptions
    /\ user = None
    /\ secret = None
    /\ process = "running"
    /\ ret = [op |-> "none"]

Running == process = "running"
Created == IsSome(user)

\* a call that panicked: nothing is constructed or returned
Panicked(call) ==
    /\ process' = "panicked"
    /\ ret' = call @@ [outcome |-> "panic"]
    /\ UNCHANGED <<options, user, secret>>

\* a call that returned value and left the user alone
Answered(call, value) ==
    /\ ret' = call @@ [outcome |-> "return", value |-> value]
    /\ UNCHANGED <<options, user, secret, process>>

\* a factory that returned the user u, derived from the plaintext s; a User
\* value is constructed once
Constructed(call, value, u, s) ==
    /\ user' = Some(u)
    /\ secret' = s
    /\ ret' = call @@ [outcome |-> "return", value |-> value]
    /\ UNCHANGED <<options, process>>

NewBasic ==
    /\ Running /\ ~Created
    /\ \E name \in Usernames, password \in GenPasswords, salt \in Salts :
        LET call == [op |-> "new_basic", username |-> name]
            r == new_basic(name, password, salt)
        IN  IF Returned(r)
            THEN Constructed(call, r.value, r.value.user, Some(r.value.password))
            ELSE Panicked(call)

NewOAuth ==
    /\ Running /\ ~Created
    /\ \E name \in Usernames, rs \in SUBSET RoleNames, user_info \in UserInfos :
        LET call == [op |-> "new_oauth", username |-> name, roles |-> rs,
                     user_info |-> user_info]
            u == new_oauth(name, rs, user_info)
        IN  Constructed(call, u, u, None)

GetAdminUser ==
    /\ Running /\ ~Created
    /\ \E salt \in Salts :
        LET call == [op |-> "get_admin_user"]
            r == get_admin_user(options, salt)
        IN  IF Returned(r)
            THEN Constructed(call, r.value, r.value, Some(options.password))
            ELSE Panicked(call)

InsertRole ==
    /\ Running /\ Created
    /\ \E r \in RoleNames :
        /\ user' = Some(InsertedRole(user.val, r))
        /\ ret' = [op |-> "insert_role", role |-> r, outcome |-> "return",
                   value |-> (r \notin user.val.roles)]
        /\ UNCHANGED <<options, secret, process>>

RemoveRole ==
    /\ Running /\ Created
    /\ \E r \in RoleNames :
        /\ user' = Some(RemovedRole(user.val, r))
        /\ ret' = [op |-> "remove_role", role |-> r, outcome |-> "return",
                   value |-> (r \in user.val.roles)]
        /\ UNCHANGED <<options, secret, process>>

\* a later login writes the provider's current profile to the public field
SetUserInfo ==
    /\ Running /\ Created /\ is_oauth(user.val)
    /\ \E user_info \in UserInfos :
        /\ user' = Some([user.val EXCEPT !.ty.user_info = user_info])
        /\ ret' = [op |-> "set_user_info", outcome |-> "return"]
        /\ UNCHANGED <<options, secret, process>>

CallUsername ==
    /\ Running /\ Created
    /\ Answered([op |-> "username"], username(user.val))

CallIsOAuth ==
    /\ Running /\ Created
    /\ Answered([op |-> "is_oauth"], is_oauth(user.val))

CallRoles ==
    /\ Running /\ Created
    /\ \E v \in roles(user.val) : Answered([op |-> "roles"], v)

CallVerifyPassword ==
    /\ Running /\ Created /\ ~is_oauth(user.val)
    /\ \E password \in Candidates :
        LET call == [op |-> "verify_password", password |-> password]
            r == verify_password(user.val.ty, password)
        IN  IF Returned(r) THEN Answered(call, r.value) ELSE Panicked(call)

Next ==
    \/ NewBasic
    \/ NewOAuth
    \/ GetAdminUser
    \/ InsertRole
    \/ RemoveRole
    \/ SetUserInfo
    \/ CallUsername
    \/ CallIsOAuth
    \/ CallRoles
    \/ CallVerifyPassword

Spec == Init /\ [][Next]_vars

(***************************************************************************)
(* The credential codec on its own: verify called on arbitrary stored      *)
(* strings, well-formed and not.                                           *)
(***************************************************************************)
\* hashes gen_hash produces, every prefix of each, and other strings
StoredHashes ==
    LET produced == {gen_hash(s, salt).value :
                        s \in {c \in Candidates : Len(c) <= MaxPwdLen}, salt \in Salts}
    IN  UNION {{SubSeq(h, 1, k) : k \in 0..Len(h)} : h \in produced}
        \cup {h \o <<Sep, "x">> : h \in produced}
        \cup {<<"not-a-valid-hash">>, <<Sep, "not-a-valid-hash">>,
              <<Sep, "pbkdf2-sha256", Sep, "salt1", Sep, "digest">>}

\* a pure function: one call per behaviour, on inputs drawn here
CallVerify ==
    /\ Running /\ ret.op = "none"
    /\ \E password_hash \in StoredHashes, password \in Candidates :
        LET call == [op |-> "verify", password_hash |-> password_hash,
                     password |-> password]
            r == verify(password_hash, password)
        IN  IF Returned(r) THEN Answered(call, r.value) ELSE Panicked(call)

NextCodec == CallVerify

SpecCodec == Init /\ [][NextCodec]_vars

(***************************************************************************)
(* The profile mapping on its own.                                         *)
(***************************************************************************)
\* openid::Userinfo values: each claim absent, empty or set
Userinfos ==
    [sub : {"u-1"},
     name : Opt({"", "Bobby"}),
     given_name : Opt({"Bob"}),
     preferred_username : Opt({"bobby"}),
     picture : Opt({"https://idp.example/bobby.png"}),
     email : Opt({"", "bobby@example.com"}),
     gender : Opt({""}),
     updated_at : Opt({0, 1700000000})]

\* a pure function: one call per behaviour, on inputs drawn here
CallFrom ==
    /\ Running /\ ret.op = "none"
    /\ \E claims \in Userinfos :
        Answered([op |-> "from", claims |-> claims], FromUserinfo(claims))

NextMapper == CallFrom

SpecMapper == Init /\ [][NextMapper]_vars

(***************************************************************************)
(* Properties.                                                             *)
(***************************************************************************)
Factories == {"new_basic", "get_admin_user", "new_oauth"}
Accepted(password) == \A salt \in Salts : IsOk(HashPassword(password, salt))

\* C1: verify called with a stored string that is not a valid PHC hash
\* returns a MalformedHashError to its caller: it does not panic, and it does
\* not answer false.
C1_MalformedHashIsAnError ==
    (ret.op = "verify" /\ ~IsOk(PasswordHashNew(ret.password_hash)))
        => (ret.outcome = "error" /\ process = "running")

\* C2: verifying a candidate against the hash derived from a secret returns,
\* and returns true exactly when the candidate is that secret, whatever salt
\* was drawn.
C2_VerifyIffSameSecret ==
    ret.op = "verify_password"
        => (ret.outcome = "return" /\ ret.value = (ret.password = secret.val))

C2_Witness ==
    /\ ret.op = "verify_password" /\ ret.outcome = "return"
    /\ ret.value = FALSE
    /\ Len(ret.password) = Len(secret.val)

\* C3: the password_hash of a Native user is what gen_hash yields for the
\* secret it was derived from under some salt, and it is neither that secret,
\* nor the configured admin password, nor any password a factory hands out.
C3_HashNeverPlaintext ==
    (Created /\ ~is_oauth(user.val))
        => /\ IsSome(secret)
           /\ \E salt \in Salts :
                gen_hash(secret.val, salt) = Return(user.val.ty.password_hash)
           /\ user.val.ty.password_hash # secret.val
           /\ user.val.ty.password_hash # options.password
           /\ user.val.ty.password_hash \notin GenPasswords

C3_Witness ==
    /\ Created /\ ~is_oauth(user.val)
    /\ secret = Some(options.password)
    /\ user.val.roles = {"admin", "editor"}

C5_NewBasic ==
    ret.op = "new_basic"
        => /\ ret.outcome = "return"
           /\ ret.value.user.ty.kind = "Native"
           /\ username(ret.value.user) = ret.username
           /\ ~is_oauth(ret.value.user)
           /\ ret.value.user.roles = {}
           /\ roles(ret.value.user) = {<<>>}
           /\ verify(ret.value.user.ty.password_hash, ret.value.password) = Return(TRUE)
           /\ user = Some(ret.value.user)

C5_Witness ==
    /\ ret.op = "new_basic" /\ ret.outcome = "return"
    /\ ret.username = "alice"
    /\ ret.value.password \in GenPasswords

\* C6: new_oauth returns a federated user with the roles and the profile it
\* was given, named by the profile's name when that is set (the empty string
\* included) and by the caller's name only when it is unset.
C6_NewOAuth ==
    ret.op = "new_oauth"
        => /\ is_oauth(ret.value)
           /\ ret.value.roles = ret.roles
           /\ ret.value.ty.user_info = ret.user_info
           /\ username(ret.value) =
                (IF ret.user_info.name = None THEN ret.username ELSE ret.user_info.name.val)

C6_Witness ==
    /\ ret.op = "new_oauth"
    /\ ret.user_info.name = Some("")
    /\ username(ret.value) = ""

\* C7: the mapping copies name, preferred_username, picture, email, gender
\* and updated_at as they are, absent staying absent and empty staying
\* empty, and leaves groups unset.
C7_FromClaims ==
    ret.op = "from"
        => /\ ret.value.name = ret.claims.name
           /\ ret.value.preferred_username = ret.claims.preferred_username
           /\ ret.value.picture = ret.claims.picture
           /\ ret.value.email = ret.claims.email
           /\ ret.value.gender = ret.claims.gender
           /\ ret.value.updated_at = ret.claims.updated_at
           /\ ret.value.groups = None

C7_Witness ==
    /\ ret.op = "from"
    /\ ret.claims.email = None /\ ret.value.email = None
    /\ ret.claims.name = Some("") /\ ret.value.name = Some("")
    /\ ret.claims.updated_at = Some(0)

\* C8: once a user is created, no step changes whether it is federated or
\* what username() returns, a change of a federated user's profile included.
C8_IdentityFixed ==
    [][(Created /\ Created')
        => /\ is_oauth(user'.val) = is_oauth(user.val)
           /\ user'.val.ty.kind = user.val.ty.kind
           /\ username(user'.val) = username(user.val)]_vars

C8_Witness ==
    /\ Created /\ is_oauth(user.val)
    /\ IsSome(user.val.ty.user_info.name)
    /\ user.val.ty.user_info.name.val # user.val.ty.userid
    /\ ret.op = "username" /\ ret.value = user.val.ty.userid

\* C9: when the hashing algorithm rejects a secret, the factory that asked
\* for the hash returns a typed error, constructs no user, and the process
\* keeps running.
C9_HashFailureIsAnError ==
    (ret.op \in Factories /\ ret.outcome # "return")
        => (ret.outcome = "error" /\ process = "running" /\ user = None)

\* C10: inserting a role leaves the set holding it once (inserting a name
\* already present changes nothing), and roles() lists each member of the
\* set exactly once and nothing else.
C10_RolesUnique ==
    [][/\ ret'.op = "insert_role"
            => /\ user'.val.roles = user.val.roles \cup {ret'.role}
               /\ ret'.role \in user.val.roles => user'.val.roles = user.val.roles
       /\ ret'.op = "roles"
            => /\ Range(ret'.value) = user'.val.roles
               /\ \A r \in user'.val.roles :
                    Cardinality({i \in 1..Len(ret'.value) : ret'.value[i] = r}) = 1]_vars

C10_Witness ==
    /\ ret.op = "insert_role" /\ ret.value = FALSE
    /\ user.val.roles = {ret.role}

====
